---- MODULE Spec2Model ----
(***************************************************************************)
(* Newsletter digest pipeline (src/digest.py): fetch unread mail, summarize *)
(* it, send the digest, then mark the fetched mail as read.                 *)
(*                                                                          *)
(* The mailbox is shared state; every run of main() is a process whose      *)
(* steps are its blocking external calls.                                   *)
(***************************************************************************)
EXTENDS Integers, Sequences, FiniteSets, TLC

\* ------------------------------------------------------------------ bounds
\* Messages that ever exist in the mailbox (ids 1..MaxMsgs).
MaxMsgs == 3
\* Stand-in for max_results (50 in the source): most ids one listing returns.
MaxResults == 2
\* Most required variables an input environment leaves unset or empty.
MaxMissing == 1

\* ------------------------------------------------------- program constants
\* body[:1000] in get_unread_emails
BodyLimit == 1000

Ids == 1..MaxMsgs
AllProcs == {1, 2}

NONE == "<None>"

Min(a, b) == IF a <= b THEN a ELSE b
Range(s) == {s[i] : i \in 1..Len(s)}

\* ------------------------------------------------------------ environment
required_vars ==
    << "GEMINI_API_KEY", "GMAIL_TOKEN_B64", "AWS_ACCESS_KEY_ID",
       "AWS_SECRET_ACCESS_KEY", "SOURCE_EMAIL", "DESTINATION_EMAIL" >>

EnvNames == Range(required_vars) \cup {"AWS_REGION"}

\* What os.environ can hold for a name: NONE (unset), "" (set but empty) or a
\* value.  The token is malformed base64, bytes that are no JSON, JSON that is
\* no authorized-user info, or a usable token; the region is one the mail
\* client accepts or one it rejects.
EnvValues(n) ==
    CASE n = "GMAIL_TOKEN_B64" -> {NONE, "", "bad-base64", "bad-json", "bad-info", "token"}
      [] n = "AWS_REGION"      -> {NONE, "eu-west-1", "not a region"}
      [] OTHER                 -> {NONE, "", "value"}

\* os.environ.get(var) is falsy
Falsy(v) == v = NONE \/ v = ""

\* The values of name n in an environment whose unset or empty required
\* variables are exactly M.
ValuesGiven(n, M) == {v \in EnvValues(n) : n \in Range(required_vars) => (Falsy(v) <=> n \in M)}

\* The environments a run may be started with.
Envs ==
    UNION { [ GEMINI_API_KEY        : ValuesGiven("GEMINI_API_KEY", M),
              GMAIL_TOKEN_B64       : ValuesGiven("GMAIL_TOKEN_B64", M),
              AWS_ACCESS_KEY_ID     : ValuesGiven("AWS_ACCESS_KEY_ID", M),
              AWS_SECRET_ACCESS_KEY : ValuesGiven("AWS_SECRET_ACCESS_KEY", M),
              SOURCE_EMAIL          : ValuesGiven("SOURCE_EMAIL", M),
              DESTINATION_EMAIL     : ValuesGiven("DESTINATION_EMAIL", M),
              AWS_REGION            : ValuesGiven("AWS_REGION", M) ] :
            M \in {T \in SUBSET Range(required_vars) : Cardinality(T) <= MaxMissing} }

\* Mutant: only an unset variable counts as missing (`is None`).
missing_vars_unset_only(e) == SelectSeq(required_vars, LAMBDA v : e[v] = NONE)

\* missing_vars = [var for var in required_vars if not os.environ.get(var)]
missing_vars(e) == SelectSeq(required_vars, LAMBDA v : Falsy(e[v]))

\* ------------------------------------------------------- message contents
\* Encoded data is a sequence of base64url digits 0..63 followed by padding
\* marks; decoded text is a sequence of code points.
Pad == 64

RECURSIVE Digits(_)
\* The digits of encoded data, before its trailing padding.
Digits(d) == IF d # << >> /\ d[Len(d)] = Pad THEN Digits(SubSeq(d, 1, Len(d) - 1)) ELSE d

\* Four digits give three bytes; a last group of three gives two, of two one.
QuadBytes(ds) ==
    LET r    == Len(ds) % 4
        n    == 3 * (Len(ds) \div 4) + (IF r >= 2 THEN r - 1 ELSE 0)
        D(i) == IF i <= Len(ds) THEN ds[i] ELSE 0
    IN  [j \in 1..n |->
            LET q == (j - 1) \div 3
                w == D(4 * q + 1) * 262144 + D(4 * q + 2) * 4096 + D(4 * q + 3) * 64 + D(4 * q + 4)
            IN  CASE (j - 1) % 3 = 0 -> w \div 65536
                  [] (j - 1) % 3 = 1 -> (w \div 256) % 256
                  [] OTHER           -> w % 256]

\* base64.urlsafe_b64decode(data): fails ("Incorrect padding") when the last
\* group is incomplete and the padding does not make it up to four.
urlsafe_b64decode(d) ==
    LET ds   == Digits(d)
        pads == Len(d) - Len(ds)
        r    == Len(ds) % 4
    IN  IF r = 1 \/ (r # 0 /\ r + pads < 4)
        THEN [ok |-> FALSE, val |-> << >>]
        ELSE [ok |-> TRUE, val |-> QuadBytes(ds)]

RECURSIVE utf8(_)
\* bytes.decode("utf-8") for one- and two-byte sequences (the message bodies
\* hold no byte above 0xDF); a stray continuation byte, an overlong lead or a
\* truncated sequence fails.
utf8(bs) ==
    IF \A i \in 1..Len(bs) : bs[i] < 128 THEN [ok |-> TRUE, val |-> bs]
    ELSE IF bs[1] < 128
         THEN LET rest == utf8(Tail(bs))
              IN  [ok |-> rest.ok, val |-> IF rest.ok THEN << bs[1] >> \o rest.val ELSE << >>]
    ELSE IF bs[1] >= 194 /\ bs[1] <= 223 /\ Len(bs) >= 2 /\ bs[2] >= 128 /\ bs[2] <= 191
         THEN LET rest == utf8(Tail(Tail(bs)))
              IN  [ok |-> rest.ok,
                   val |-> IF rest.ok
                           THEN << (bs[1] - 192) * 64 + (bs[2] - 128) >> \o rest.val
                           ELSE << >>]
    ELSE [ok |-> FALSE, val |-> << >>]

\* base64.urlsafe_b64decode(data).decode("utf-8")
decode(d) ==
    LET raw == urlsafe_b64decode(d)
    IN  IF raw.ok THEN utf8(raw.val) ELSE [ok |-> FALSE, val |-> << >>]

RECURSIVE FirstPlain_no_break(_)
\* Mutant: the loop has no `break`, so the last text/plain part with data wins.
FirstPlain_no_break(parts) ==
    IF parts = << >> THEN 0
    ELSE LET k == FirstPlain_no_break(Tail(parts))
         IN  IF k # 0 THEN k + 1
             ELSE IF parts[1].mimeType = "text/plain" /\ "data" \in DOMAIN parts[1].body THEN 1
             ELSE 0

RECURSIVE FirstPlain(_)
\* The loop over payload["parts"]: the first text/plain part that has data
\* ends the loop; 0 when no part does.
FirstPlain(parts) ==
    IF parts = << >> THEN 0
    ELSE IF parts[1].mimeType = "text/plain" /\ "data" \in DOMAIN parts[1].body THEN 1
    ELSE LET k == FirstPlain(Tail(parts)) IN IF k = 0 THEN 0 ELSE k + 1

extract_body(payload) ==
    IF "parts" \in DOMAIN payload
    THEN LET k == FirstPlain(payload.parts)
         IN  IF k = 0 THEN [ok |-> TRUE, val |-> << >>]
             ELSE decode(payload.parts[k].body.data)
    ELSE IF "body" \in DOMAIN payload /\ "data" \in DOMAIN payload.body
         THEN decode(payload.body.data)
         ELSE [ok |-> TRUE, val |-> << >>]

RECURSIVE HeaderOr_one_default(_, _, _)
\* Mutant: every header falls back to the same placeholder.
HeaderOr_one_default(headers, name, default) ==
    IF headers = << >> THEN "Unknown"
    ELSE IF headers[1].name = name THEN headers[1].value
    ELSE HeaderOr_one_default(Tail(headers), name, default)

RECURSIVE HeaderOr(_, _, _)
\* next((h["value"] for h in headers if h["name"] == name), default)
HeaderOr(headers, name, default) ==
    IF headers = << >> THEN default
    ELSE IF headers[1].name = name THEN headers[1].value
    ELSE HeaderOr(Tail(headers), name, default)

\* Mutant: the body is stored whole.
EmailRecord_untruncated(id, message) ==
    LET headers == message.payload.headers
    IN  [ id      |-> id,
          subject |-> HeaderOr(headers, "Subject", "No Subject"),
          sender  |-> HeaderOr(headers, "From", "Unknown"),
          date    |-> HeaderOr(headers, "Date", "Unknown"),
          body    |-> extract_body(message.payload).val ]

\* The record appended to email_data for one fetched message.
EmailRecord(id, message) ==
    LET headers == message.payload.headers
        body    == extract_body(message.payload).val
    IN  [ id      |-> id,
          subject |-> HeaderOr(headers, "Subject", "No Subject"),
          sender  |-> HeaderOr(headers, "From", "Unknown"),
          date    |-> HeaderOr(headers, "Date", "Unknown"),
          body    |-> SubSeq(body, 1, Min(Len(body), BodyLimit)) ]

\* What the mailbox holds for each id (messages().get(format="full")): a
\* single-part message, a multi-part one whose plain part comes second, one
\* with no plain part, and one whose data is cut short.
Message(id) ==
    CASE id % 4 = 1 ->
           [payload |-> [headers |-> << [name |-> "From", value |-> "a@news.example"],
                                        [name |-> "Subject", value |-> "Weekly"],
                                        [name |-> "Date", value |-> "Mon, 2 Nov" ] >>,
                         mimeType |-> "text/plain",
                         body |-> [size |-> 2, data |-> << 18, 6, 36, Pad >>]]]
      [] id % 4 = 2 ->
           [payload |-> [headers |-> << [name |-> "Date", value |-> "Tue, 3 Nov"],
                                        [name |-> "From", value |-> "b@news.example"] >>,
                         mimeType |-> "multipart/alternative",
                         body |-> [size |-> 0],
                         parts |-> << [mimeType |-> "text/html",
                                       body |-> [size |-> 3, data |-> << 15, 3, 56, 43 >>]],
                                      [mimeType |-> "text/plain",
                                       body |-> [size |-> 3, data |-> << 27, 54, 44, 33 >>]] >>]]
      [] id % 4 = 3 ->
           [payload |-> [headers |-> << >>,
                         mimeType |-> "multipart/mixed",
                         body |-> [size |-> 0],
                         parts |-> << [mimeType |-> "text/html",
                                       body |-> [size |-> 3, data |-> << 15, 3, 56, 43 >>]] >>]]
      [] OTHER ->
           [payload |-> [headers |-> << [name |-> "Subject", value |-> "Cut short"] >>,
                         mimeType |-> "text/plain",
                         body |-> [size |-> 2, data |-> << 18, 6, 36 >>]]]

\* ------------------------------------------------------------------ state
VARIABLES
    procs,      \* the runs of main() an external scheduler has going
    exists,     \* ids of the messages in the mailbox
    unread,     \* ids of the messages carrying the UNREAD label
    cleared,    \* ids whose UNREAD label a batchModify of the program removed
    confirmed,  \* ids of the batches whose digest the mail service accepted
    run,        \* per run: position in main() and its local variables
    probe       \* one message on its way through the record and prompt building

vars == << procs, exists, unread, cleared, confirmed, run, probe >>

\* The exception classes main() meets; only SystemExit is no Exception.
Exceptions == {"ValueError", "HttpError", "Exception"}

Summaries == {"", "Topic A: ...", "Topic \\ud800"}
\* MIMEText(text) encodes its text: a lone surrogate raises UnicodeEncodeError.
Encodable(text) == text # "Topic \\ud800"

\* boto3.client("ses", region_name=...) rejects a malformed region name.
ValidRegion(region) == region # "not a region"

NewRun(e) ==
    [ pc         |-> "start",
      env        |-> e,
      aws_region |-> NONE,
      messages   |-> << >>,    \* results.get("messages", [])
      email_data |-> << >>,    \* the list get_unread_emails builds
      fetch      |-> NONE,     \* how get_unread_emails ended: "returned" / "raised"
      fetch_error|-> NONE,     \* what a mailbox call of the fetch raised
      emails     |-> << >>,
      prompt     |-> << >>,
      summary    |-> NONE,
      success    |-> NONE,     \* "True" / "False" once send_summary_email returns
      message_id |-> NONE,     \* response["MessageId"] of send_raw_email
      send_error |-> NONE,     \* where send_summary_email failed
      email_ids  |-> << >>,
      ack_error  |-> NONE,     \* what the batchModify request raised
      calls      |-> << >>,    \* the calls main() has made, in order
      cleared    |-> {},       \* ids this run's batchModify marked read
      raised     |-> NONE,     \* the exception that ended main()
      traceback  |-> FALSE,    \* the outer handler ran
      exit_code  |-> -1 ]

Idle == [NewRun([n \in EnvNames |-> NONE]) EXCEPT !.pc = "idle"]

\* The ids of the records get_unread_emails returned to main().
BatchIds(r) == {r.emails[i].id : i \in 1..Len(r.emails)}

Called(r, f) == [r EXCEPT !.calls = Append(@, f)]

\* The process ends with `code`.
Exited(r, code) == [r EXCEPT !.pc = "exited", !.exit_code = code]

\* Mutant: the outer handler catches everything (`except BaseException`).
main_except_catch_all(r, exc) == Exited([r EXCEPT !.raised = exc, !.traceback = TRUE], 1)

\* An exception reaching main()'s outer handler (lines 257-261): `except
\* Exception` prints the traceback and exits 1; SystemExit(1), raised by the
\* sys.exit(1) calls inside the try block, is no Exception and passes through.
main_except(r, exc) ==
    IF exc \in Exceptions
    THEN Exited([r EXCEPT !.raised = exc, !.traceback = TRUE], 1)
    ELSE Exited([r EXCEPT !.raised = exc], 1)

sys_exit(r) == main_except(r, "SystemExit")

\* --------------------------------------------------------------- main()
\* Lines 196-215: validate the environment, then read the configuration.
main_start(e) ==
    IF missing_vars(e) # << >>
    THEN Exited(NewRun(e), 1)
    ELSE [NewRun(e) EXCEPT
            !.pc = "load_gmail_credentials",
            !.aws_region = IF e["AWS_REGION"] = NONE THEN "us-east-1" ELSE e["AWS_REGION"]]

\* Mutant: the decoded token's structure is not checked.
load_gmail_credentials_unchecked(e) ==
    IF Falsy(e["GMAIL_TOKEN_B64"]) THEN "ValueError"
    ELSE IF e["GMAIL_TOKEN_B64"] \in {"token", "bad-info"} THEN NONE
    ELSE "ValueError"

\* load_gmail_credentials(): NONE when it returns credentials, else what it raises.
load_gmail_credentials(e) ==
    IF Falsy(e["GMAIL_TOKEN_B64"]) THEN "ValueError"
    ELSE IF e["GMAIL_TOKEN_B64"] = "token" THEN NONE
    ELSE "ValueError"

\* Mutant: no early return on an empty batch.
main_after_fetch_no_return(r, result) ==
    [r EXCEPT !.fetch = "returned", !.emails = result, !.pc = "summarize"]

\* Lines 225-231: emails = get_unread_emails(...); an empty list ends the run
\* with `return`.
main_after_fetch(r, result) ==
    LET r1 == [r EXCEPT !.fetch = "returned", !.emails = result]
    IN  IF result = << >> THEN Exited(r1, 0) ELSE [r1 EXCEPT !.pc = "summarize"]

\* Mutant: on HttpError the records fetched so far are returned.
get_unread_emails_except_partial(r, exc) ==
    LET r1 == [r EXCEPT !.fetch_error = exc]
    IN  IF exc = "HttpError"
        THEN main_after_fetch(r1, r.email_data)
        ELSE main_except([r1 EXCEPT !.fetch = "raised"], exc)

\* A mailbox call inside get_unread_emails raised: `except HttpError` (lines
\* 80-82) prints it and returns []; anything else leaves the function.
get_unread_emails_except(r, exc) ==
    LET r1 == [r EXCEPT !.fetch_error = exc]
    IN  IF exc = "HttpError"
        THEN main_after_fetch(r1, << >>)
        ELSE main_except([r1 EXCEPT !.fetch = "raised"], exc)

\* Lines 47-53: the listing came back.
get_unread_emails_listed(r, messages) ==
    IF messages = << >>
    THEN main_after_fetch(r, << >>)
    ELSE [r EXCEPT !.pc = "get", !.messages = messages]

\* Lines 54-78: one message came back; after the last one the list is returned.
get_unread_emails_got(r, id, message) ==
    IF ~extract_body(message.payload).ok
    THEN get_unread_emails_except(r, "Exception")
    ELSE LET data == Append(r.email_data, EmailRecord(id, message))
             r1   == [r EXCEPT !.email_data = data]
         IN  IF Len(data) = Len(r.messages) THEN main_after_fetch(r1, data) ELSE r1

\* Lines 110-113: what the prompt holds of each email.
PreviewLimit == 500
emails_text(emails) ==
    [i \in 1..Len(emails) |->
        [ index   |-> i,
          sender  |-> emails[i].sender,
          subject |-> emails[i].subject,
          date    |-> emails[i].date,
          preview |-> SubSeq(emails[i].body, 1, Min(Len(emails[i].body), PreviewLimit)) ]]

\* Mutant: a failed summarization is tried again.
main_after_summary_retry(r, text) ==
    IF text = NONE THEN r ELSE [r EXCEPT !.summary = text, !.pc = "send"]

\* Lines 235-241: summarize_emails_with_gemini returned `text`, or raised
\* (text = NONE): the inner handler calls sys.exit(1).
main_after_summary(r, text) ==
    IF text = NONE THEN sys_exit(r) ELSE [r EXCEPT !.summary = text, !.pc = "send"]

\* summarize_emails_with_gemini (lines 101-124); `response` is the service's
\* answer, NONE when the call raises.
summarize_emails_with_gemini(r, response) ==
    IF r.emails = << >>
    THEN main_after_summary(r, NONE)
    ELSE main_after_summary([r EXCEPT !.prompt = emails_text(r.emails)], response)

\* Mutant: the result of the send is not looked at.
main_after_send_unchecked(r, success) == [r EXCEPT !.success = success, !.pc = "ack"]

\* Mutant: a failed send ends the run as the empty batch does, with `return`.
main_after_send_returns(r, success) ==
    LET r1 == [r EXCEPT !.success = success]
    IN  IF success # "True" THEN Exited(r1, 0) ELSE [r1 EXCEPT !.pc = "ack"]

\* Lines 247-253: success = send_summary_email(...).
main_after_send(r, success) ==
    LET r1 == [r EXCEPT !.success = success]
    IN  IF success # "True" THEN sys_exit(r1) ELSE [r1 EXCEPT !.pc = "ack"]

\* Mutant: the handler of send_raw_email returns True as well.
send_summary_email_always_true(r, sent) ==
    IF ~ValidRegion(r.aws_region)
    THEN main_except([r EXCEPT !.send_error = "client"], "Exception")
    ELSE IF ~Encodable(r.summary)
    THEN main_except([r EXCEPT !.send_error = "compose"], "Exception")
    ELSE IF sent THEN main_after_send([r EXCEPT !.message_id = "abc123"], "True")
    ELSE main_after_send([r EXCEPT !.send_error = "send_raw_email"], "True")

\* send_summary_email (lines 145-189); `sent` says whether send_raw_email
\* succeeds.  Only that call is inside the try block.
send_summary_email(r, sent) ==
    IF ~ValidRegion(r.aws_region)
    THEN main_except([r EXCEPT !.send_error = "client"], "Exception")
    ELSE IF ~Encodable(r.summary)
    THEN main_except([r EXCEPT !.send_error = "compose"], "Exception")
    ELSE IF sent THEN main_after_send([r EXCEPT !.message_id = "abc123"], "True")
    ELSE main_after_send([r EXCEPT !.send_error = "send_raw_email"], "False")

\* ------------------------------------------------------------- the mailbox
RECURSIVE Descending(_)
Descending(S) ==
    IF S = {} THEN << >>
    ELSE LET m == CHOOSE x \in S : \A y \in S : y <= x
         IN  << m >> \o Descending(S \ {m})

\* Mutant: the query lacks "is:unread", so read messages are listed too.
Listings_every_message(n) ==
    { Descending(S) : S \in { T \in SUBSET exists : Cardinality(T) = Min(n, Cardinality(exists)) } }

\* messages().list(q="is:unread", maxResults=n): at most n unread ids, newest
\* (highest) first.
Listings(n) ==
    { Descending(S) : S \in { T \in SUBSET unread : Cardinality(T) = Min(n, Cardinality(unread)) } }

RaiseKinds == {"HttpError", "Exception"}

\* Mutant: the ids to mark are listed again instead of taken from the batch.
email_ids_listed_again(emails) == Descending(unread)

\* email_ids = [email["id"] for email in emails]
email_ids(emails) == [i \in 1..Len(emails) |-> emails[i].id]

\* mark_emails_as_read (lines 127-142) once batchModify ended (exc = NONE when
\* it succeeded): `except HttpError` prints and returns; main() then ends.
mark_emails_as_read_done(r, exc) ==
    LET r1 == [r EXCEPT !.ack_error = exc]
    IN  IF exc = NONE \/ exc = "HttpError" THEN Exited(r1, 0) ELSE main_except(r1, exc)

\* No message is being followed.
NoProbe ==
    [ stage |-> "none", message |-> [payload |-> [headers |-> << >>]],
      extracted |-> [ok |-> FALSE, val |-> << >>], record |-> << >>, prompt |-> << >> ]

\* ---------------------------------------------------------------- actions
Init ==
    /\ procs = {1}
    /\ exists = {}
    /\ unread = {}
    /\ cleared = {}
    /\ confirmed = {}
    /\ run = [p \in AllProcs |-> Idle]
    /\ probe = NoProbe

Step(p, r) == run' = [run EXCEPT ![p] = r]

\* A new message reaches the mailbox, unread.
Arrive ==
    /\ Cardinality(exists) < MaxMsgs
    /\ LET id == Cardinality(exists) + 1
       IN  /\ exists' = exists \cup {id}
           /\ unread' = unread \cup {id}
    /\ UNCHANGED << probe, procs, cleared, confirmed, run >>

\* The scheduler starts main() with some environment.
Start(p) ==
    /\ p \in procs
    /\ run[p].pc \in {"idle", "exited"}
    /\ \E e \in Envs : Step(p, main_start(e))
    /\ UNCHANGED << probe, procs, exists, unread, cleared, confirmed >>

LoadCredentials(p) ==
    /\ run[p].pc = "load_gmail_credentials"
    /\ LET r   == Called(run[p], "load_gmail_credentials")
           exc == load_gmail_credentials(r.env)
       IN  Step(p, IF exc = NONE THEN [r EXCEPT !.pc = "build"] ELSE main_except(r, exc))
    /\ UNCHANGED << probe, procs, exists, unread, cleared, confirmed >>

\* build("gmail", "v1", credentials=creds)
BuildService(p) ==
    /\ run[p].pc = "build"
    /\ LET r == Called(run[p], "build")
       IN  \E ok \in BOOLEAN :
             Step(p, IF ok THEN [r EXCEPT !.pc = "list"] ELSE main_except(r, "Exception"))
    /\ UNCHANGED << probe, procs, exists, unread, cleared, confirmed >>

ListUnread(p) ==
    /\ run[p].pc = "list"
    /\ LET r == Called(run[p], "list")
       IN  \/ \E messages \in Listings(MaxResults) : Step(p, get_unread_emails_listed(r, messages))
           \/ \E exc \in RaiseKinds : Step(p, get_unread_emails_except(r, exc))
    /\ UNCHANGED << probe, procs, exists, unread, cleared, confirmed >>

GetMessage(p) ==
    /\ run[p].pc = "get"
    /\ LET r  == Called(run[p], "get")
           id == r.messages[Len(r.email_data) + 1]
       IN  \/ Step(p, get_unread_emails_got(r, id, Message(id)))
           \/ \E exc \in RaiseKinds : Step(p, get_unread_emails_except(r, exc))
    /\ UNCHANGED << probe, procs, exists, unread, cleared, confirmed >>

Summarize(p) ==
    /\ run[p].pc = "summarize"
    /\ LET r == Called(run[p], "summarize")
       IN  \E response \in Summaries \cup {NONE} : Step(p, summarize_emails_with_gemini(r, response))
    /\ UNCHANGED << probe, procs, exists, unread, cleared, confirmed >>

Send(p) ==
    /\ run[p].pc = "send"
    /\ LET r == Called(run[p], "send")
       IN  \E sent \in BOOLEAN :
             LET r1 == send_summary_email(r, sent)
             IN  /\ Step(p, r1)
                 /\ confirmed' = IF r1.message_id # NONE
                                 THEN confirmed \cup BatchIds(r)
                                 ELSE confirmed
    /\ UNCHANGED << probe, procs, exists, unread, cleared >>

\* mark_emails_as_read(gmail_service, email_ids): the request either succeeds,
\* or fails having been applied or not.
Acknowledge(p) ==
    /\ run[p].pc = "ack"
    /\ LET ids == email_ids(run[p].emails)
           r   == [run[p] EXCEPT !.email_ids = ids]
       IN  IF ids = << >>
           THEN /\ Step(p, Exited(r, 0))
                /\ UNCHANGED << unread, cleared >>
           ELSE \E exc \in RaiseKinds \cup {NONE}, applied \in BOOLEAN :
                  /\ exc = NONE => applied
                  /\ LET marked == IF applied THEN Range(ids) \cap unread ELSE {}
                         r1     == [Called(r, "ack") EXCEPT !.cleared = marked]
                     IN  /\ Step(p, mark_emails_as_read_done(r1, exc))
                         /\ unread' = unread \ marked
                         /\ cleared' = cleared \cup marked
    /\ UNCHANGED << probe, procs, exists, confirmed >>

Next ==
    \/ Arrive
    \/ \E p \in AllProcs :
         \/ Start(p)
         \/ LoadCredentials(p)
         \/ BuildService(p)
         \/ ListUnread(p)
         \/ GetMessage(p)
         \/ Summarize(p)
         \/ Send(p)
         \/ Acknowledge(p)

Spec == Init /\ [][Next]_vars

\* ------------------------------------------- one message, every shape of it
\* Bounds of the messages followed through get_unread_emails' loop body and
\* the prompt building.
MaxParts == 2
MaxHeaders == 3

\* Lengths of the plain-text bodies tried, around the two truncation limits.
BodySizes == {0, 1, 2, PreviewLimit - 1, PreviewLimit, PreviewLimit + 1,
              BodyLimit - 1, BodyLimit, BodyLimit + 1, BodyLimit + PreviewLimit}

\* A text of n characters, no two neighbours alike.
TextOfLength(n) == [j \in 1..n |-> 32 + ((j * 7) % 95)]

\* The base64url data the mailbox holds for a text of one-byte characters.
Encoded(text) ==
    LET L    == Len(text)
        B(j) == IF j <= L THEN text[j] ELSE 0
    IN  [i \in 1..(4 * ((L + 2) \div 3)) |->
            LET q   == (i - 1) \div 4
                pos == (i - 1) % 4
                w   == B(3 * q + 1) * 65536 + B(3 * q + 2) * 256 + B(3 * q + 3)
            IN  IF pos >= 2 /\ 3 * q + pos > L THEN Pad
                ELSE CASE pos = 0 -> w \div 262144
                       [] pos = 1 -> (w \div 4096) % 64
                       [] pos = 2 -> (w \div 64) % 64
                       [] OTHER   -> w % 64]

\* message["payload"]["body"]: without data, or with data that decodes ("Hi",
\* "ok!", the empty text) or is cut short.
Bodies ==
    { [size |-> 0] } \cup
    { [size |-> Len(d), data |-> d] :
        d \in { << 18, 6, 36, Pad >>, << 27, 54, 44, 33 >>, << >>, << 18, 6, 36 >> } }

PartTypes == {"text/plain", "text/html"}

\* The entries of payload["parts"]: leaves, and a nested multipart whose own
\* parts hold the plain text.
Parts ==
    { [mimeType |-> t, body |-> b] : t \in PartTypes, b \in Bodies } \cup
    { [mimeType |-> "multipart/alternative", body |-> [size |-> 0],
       parts |-> << [mimeType |-> "text/plain", body |-> [size |-> 3, data |-> << 27, 54, 44, 33 >>]] >>] }

PartLists == UNION { [1..n -> Parts] : n \in 0..MaxParts }

Payloads ==
    { [headers |-> << >>, mimeType |-> t, body |-> b] : t \in PartTypes, b \in Bodies } \cup
    { [headers |-> << >>, mimeType |-> t] : t \in PartTypes } \cup
    { [headers |-> << >>, mimeType |-> "multipart/mixed", body |-> [size |-> 0], parts |-> ps] :
        ps \in PartLists }

HeaderNames == {"Subject", "From", "Date", "To"}
HeaderLists ==
    UNION { [1..n -> { [name |-> h, value |-> v] : h \in HeaderNames, v \in {"v1", "v2"} }] :
            n \in 0..MaxHeaders }

\* The messages followed: every payload shape, every header list, and a
\* single-part text of every size.
ProbeMessages ==
    { [payload |-> pl] : pl \in Payloads } \cup
    { [payload |-> [headers |-> hs, mimeType |-> "text/plain", body |-> [size |-> 0]]] :
        hs \in HeaderLists } \cup
    { [payload |-> [headers |-> << [name |-> "Subject", value |-> "v1"] >>,
                    mimeType |-> "text/plain",
                    body |-> [size |-> n, data |-> Encoded(TextOfLength(n))]]] :
        n \in BodySizes }

InitRecord ==
    /\ procs = {}
    /\ exists = {}
    /\ unread = {}
    /\ cleared = {}
    /\ confirmed = {}
    /\ run = [p \in AllProcs |-> Idle]
    /\ \E m \in ProbeMessages : probe = [NoProbe EXCEPT !.stage = "message", !.message = m]

\* Lines 62-76: the loop body of get_unread_emails on the message.
BuildRecord ==
    /\ probe.stage = "message"
    /\ LET body == extract_body(probe.message.payload)
       IN  probe' = IF body.ok
                    THEN [probe EXCEPT !.stage = "record", !.extracted = body,
                                       !.record = << EmailRecord(1, probe.message) >>]
                    ELSE [probe EXCEPT !.stage = "raised", !.extracted = body]
    /\ UNCHANGED << procs, exists, unread, cleared, confirmed, run >>

\* Lines 110-113: the record's entry in the prompt.
BuildPrompt ==
    /\ probe.stage = "record"
    /\ probe' = [probe EXCEPT !.stage = "prompt", !.prompt = emails_text(probe.record)]
    /\ UNCHANGED << procs, exists, unread, cleared, confirmed, run >>

NextRecord == BuildRecord \/ BuildPrompt

SpecRecord == InitRecord /\ [][NextRecord]_vars

\* ------------------------------------------------------ overlapping runs
\* An external scheduler starts two runs of main() that overlap; both find
\* their configuration complete.
InitOverlap ==
    /\ procs = {1, 2}
    /\ exists = {}
    /\ unread = {}
    /\ cleared = {}
    /\ confirmed = {}
    /\ run = [p \in AllProcs |-> Idle]
    /\ probe = NoProbe

StartOverlapping(p) ==
    /\ p \in procs
    /\ run[p].pc = "idle"
    /\ \E e \in {f \in Envs : missing_vars(f) = << >>} : Step(p, main_start(e))
    /\ UNCHANGED << probe, procs, exists, unread, cleared, confirmed >>

NextOverlap ==
    \/ Arrive
    \/ \E p \in AllProcs :
         \/ StartOverlapping(p)
         \/ LoadCredentials(p)
         \/ BuildService(p)
         \/ ListUnread(p)
         \/ GetMessage(p)
         \/ Summarize(p)
         \/ Send(p)
         \/ Acknowledge(p)

SpecOverlap == InitOverlap /\ [][NextOverlap]_vars

\* ------------------------------------------- repeated runs that all succeed
\* Messages whose body decodes.
Fetchable == {id \in Ids : extract_body(Message(id).payload).ok}

\* The mailbox holds unread mail only, and none arrives later.
InitProgress ==
    /\ procs = {1}
    /\ \E S \in SUBSET Fetchable : exists = S /\ unread = S
    /\ cleared = {}
    /\ confirmed = {}
    /\ run = [p \in AllProcs |-> Idle]
    /\ probe = NoProbe

\* Every stage of the run has succeeded so far, and its configuration lets
\* the later ones succeed.
Succeeds(r) ==
    /\ r.env["GMAIL_TOKEN_B64"] = "token"
    /\ r.aws_region # NONE /\ ValidRegion(r.aws_region)
    /\ r.summary = NONE \/ Encodable(r.summary)
    /\ r.fetch_error = NONE /\ r.send_error = NONE /\ r.ack_error = NONE
    /\ r.raised = NONE /\ r.exit_code # 1

NextProgress ==
    \E p \in AllProcs :
        /\ \/ Start(p)
           \/ LoadCredentials(p)
           \/ BuildService(p)
           \/ ListUnread(p)
           \/ GetMessage(p)
           \/ Summarize(p)
           \/ Send(p)
           \/ Acknowledge(p)
        /\ Succeeds(run'[p])

\* The scheduler keeps starting runs and every blocking call returns.
SpecProgress == InitProgress /\ [][NextProgress]_vars /\ WF_vars(NextProgress)

\* ================================================================ claims
Made(r, f) == \E i \in 1..Len(r.calls) : r.calls[i] = f
Before(r, f, g) == \E i, j \in 1..Len(r.calls) : i < j /\ r.calls[i] = f /\ r.calls[j] = g
Running == {p \in AllProcs : run[p].pc # "idle"}
RequiredMissing(e) == \E i \in 1..Len(required_vars) : Falsy(e[required_vars[i]])

\* C1: in every run the acknowledge call is made only after send_summary_email
\* returned True in that run, and a run whose send has not reported success
\* has removed no UNREAD label.
ThmC1_AckOnlyAfterSendTrue ==
    \A p \in Running :
        /\ Made(run[p], "ack") => run[p].success = "True" /\ Before(run[p], "send", "ack")
        /\ run[p].success # "True" => run[p].cleared = {} /\ ~Made(run[p], "ack")

WitC1_AckedAfterSend ==
    \E p \in Running :
        /\ Made(run[p], "ack") /\ run[p].cleared # {}
        /\ run[p].success = "True"

\* C2: the ids passed to batchModify are exactly the ids of the records
\* get_unread_emails returned in that run, which are the ids the listing
\* gave: mail that arrived later is not among them.
ThmC2_AckExactlyFetchedIds ==
    \A p \in Running :
        Made(run[p], "ack") =>
            /\ Range(run[p].email_ids) = BatchIds(run[p])
            /\ Len(run[p].email_ids) = Len(run[p].emails)
            /\ BatchIds(run[p]) = Range(run[p].messages)
            /\ run[p].cleared \subseteq BatchIds(run[p])

\* An acknowledged batch while a message that was not fetched is unread.
WitC2_AckWhileOtherUnread ==
    \E p \in Running :
        /\ Made(run[p], "ack") /\ run[p].cleared # {}
        /\ unread \ BatchIds(run[p]) # {}

\* C3: over any sequence of runs, every message that is no longer unread was
\* in a batch whose digest the mail service accepted, and a run that ended
\* without a delivered digest has marked nothing read.
ThmC3_NoEmailLost ==
    /\ cleared \subseteq confirmed
    /\ (exists \ unread) \subseteq confirmed
    /\ \A p \in Running :
          run[p].pc = "exited" /\ run[p].message_id = NONE => run[p].cleared = {}

\* A message was marked read, and a later run failed leaving mail unread.
WitC3_ReadAfterDeliveryThenFailedRun ==
    /\ cleared # {}
    /\ \E p \in Running :
          /\ run[p].pc = "exited" /\ run[p].exit_code = 1
          /\ run[p].emails # << >> /\ BatchIds(run[p]) \subseteq unread

\* C4 (as claimed): a run in which a fetch step failed exits with a nonzero
\* status.
CexC4_FetchFailureExitsNonzero ==
    \A p \in Running :
        run[p].fetch_error # NONE /\ run[p].pc = "exited" => run[p].exit_code # 0

\* C5 (as claimed): a run whose acknowledge call failed after a successful
\* send exits with status zero.
CexC5_AckFailureExitsZero ==
    \A p \in Running :
        run[p].ack_error # NONE /\ run[p].pc = "exited" => run[p].exit_code = 0

\* C6: an empty fetched batch ends the run successfully with no
\* summarization, send or acknowledge call; the summarizer is never called
\* with an empty batch.
ThmC6_EmptyBatchNoCalls ==
    \A p \in Running :
        /\ run[p].fetch = "returned" /\ run[p].emails = << >> =>
              /\ run[p].pc = "exited" /\ run[p].exit_code = 0
              /\ ~Made(run[p], "summarize") /\ ~Made(run[p], "send") /\ ~Made(run[p], "ack")
              /\ run[p].cleared = {}
        /\ Made(run[p], "summarize") => run[p].emails # << >>

WitC6_EmptyMailboxExit ==
    \E p \in Running :
        /\ run[p].fetch = "returned" /\ run[p].emails = << >>
        /\ run[p].fetch_error = NONE /\ run[p].pc = "exited"

\* C7: when the summarization call raises, the run makes no send and no
\* acknowledge call and exits nonzero through the inner sys.exit(1), which
\* the outer handler does not catch.
ThmC7_SummaryFailureAborts ==
    \A p \in Running :
        Made(run[p], "summarize") /\ run[p].summary = NONE =>
            /\ run[p].pc = "exited" /\ run[p].exit_code = 1
            /\ ~Made(run[p], "send") /\ ~Made(run[p], "ack")
            /\ run[p].raised = "SystemExit" /\ ~run[p].traceback
            /\ run[p].cleared = {}

WitC7_SummaryFailed ==
    \E p \in Running :
        /\ Made(run[p], "summarize") /\ run[p].summary = NONE
        /\ run[p].pc = "exited" /\ Len(run[p].emails) = 2

\* C8: when send_summary_email returns False the run makes no acknowledge
\* call and exits nonzero.
ThmC8_SendFalseAborts ==
    \A p \in Running :
        run[p].success = "False" =>
            /\ run[p].pc = "exited" /\ run[p].exit_code = 1
            /\ ~Made(run[p], "ack") /\ run[p].cleared = {}

WitC8_SendReturnedFalse ==
    \E p \in Running :
        /\ run[p].success = "False" /\ run[p].send_error = "send_raw_email"
        /\ run[p].pc = "exited"

\* C9: a run started with a required variable unset or empty exits nonzero
\* before making any call.
ThmC9_MissingConfigFailsFast ==
    \A p \in Running :
        RequiredMissing(run[p].env) =>
            /\ run[p].pc = "exited" /\ run[p].exit_code = 1
            /\ run[p].calls = << >> /\ run[p].cleared = {}

\* A run failed on an empty (not unset) value while mail was unread.
WitC9_EmptyValueRejected ==
    \E p \in Running :
        /\ run[p].env["GMAIL_TOKEN_B64"] = "" /\ run[p].pc = "exited"
        /\ run[p].exit_code = 1 /\ unread # {}

\* C10 (as claimed): send_summary_email never raises; whenever sending
\* failed, it returned False.
CexC10_SendNeverRaises ==
    \A p \in Running :
        run[p].send_error # NONE => run[p].success = "False" /\ run[p].raised # "Exception"

Count(r, f) == Cardinality({i \in 1..Len(r.calls) : r.calls[i] = f})

\* C11 (as claimed): send_summary_email is never called with an empty
\* summary.
CexC11_SendOnlyNonEmptySummary ==
    \A p \in Running : Made(run[p], "send") => run[p].summary # ""

\* C12: when the fetch of a listed message fails, the run makes no send and
\* no acknowledge call; a digest is sent only for a batch that holds a record
\* for every listed message.
ThmC12_NoPartialDigest ==
    \A p \in Running :
        /\ run[p].fetch_error # NONE =>
              /\ run[p].pc = "exited"
              /\ ~Made(run[p], "summarize") /\ ~Made(run[p], "send") /\ ~Made(run[p], "ack")
              /\ run[p].cleared = {}
        /\ Made(run[p], "send") =>
              /\ Len(run[p].emails) = Len(run[p].messages)
              /\ \A i \in 1..Len(run[p].messages) : run[p].emails[i].id = run[p].messages[i]

\* The second message of a listing failed after the first was fetched.
WitC12_SecondGetFailed ==
    \E p \in Running :
        /\ run[p].fetch_error # NONE /\ Len(run[p].email_data) = 1
        /\ Len(run[p].messages) = 2 /\ run[p].pc = "exited"

\* C13: within a run the listing, the summarization, the send and the
\* acknowledge call are each made at most once, and a run that fetched a
\* non-empty batch of any size has called the summarizer exactly once.
ThmC13_NothingRetried ==
    \A p \in Running :
        /\ \A f \in {"load_gmail_credentials", "build", "list", "summarize", "send", "ack"} :
              Count(run[p], f) <= 1
        /\ Count(run[p], "get") <= Len(run[p].messages)
        /\ run[p].emails # << >> /\ run[p].pc # "summarize" => Count(run[p], "summarize") = 1

\* A full run over a batch of two.
WitC13_BatchOfTwoOneSummary ==
    \E p \in Running :
        /\ Len(run[p].emails) = 2 /\ Made(run[p], "ack")
        /\ Count(run[p], "summarize") = 1 /\ Count(run[p], "get") = 2

\* C14: when loading the credentials fails (token malformed base64, no JSON
\* or no authorized-user info; an absent one is rejected before), the run
\* exits nonzero and makes no mailbox, summarization, send or acknowledge call.
ThmC14_CredentialFailureAborts ==
    \A p \in Running :
        run[p].env["GMAIL_TOKEN_B64"] # "token" /\ run[p].pc # "load_gmail_credentials" =>
            /\ run[p].pc = "exited" /\ run[p].exit_code = 1
            /\ \A f \in {"build", "list", "get", "summarize", "send", "ack"} : ~Made(run[p], f)
            /\ run[p].cleared = {}

WitC14_BadTokenRejected ==
    \E p \in Running :
        /\ run[p].env["GMAIL_TOKEN_B64"] = "bad-info"
        /\ Made(run[p], "load_gmail_credentials") /\ run[p].raised = "ValueError"
        /\ run[p].pc = "exited" /\ unread # {}

\* ------------------------------------------------ claims about one message
Built == probe.stage \in {"record", "prompt", "raised"}
Recorded == probe.stage \in {"record", "prompt"}
InPayload == probe.message.payload
Empty == [ok |-> TRUE, val |-> << >>]
Least(S) == CHOOSE i \in S : \A j \in S : i <= j
\* The decoded content of a body: nothing when it carries no data.
Content(b) == IF "data" \in DOMAIN b THEN decode(b.data) ELSE Empty
PlainParts(pl) == {i \in 1..Len(pl.parts) : pl.parts[i].mimeType = "text/plain"}
PlainPartsWithData(pl) == {i \in PlainParts(pl) : "data" \in DOMAIN pl.parts[i].body}

\* C15 (as claimed): the body of a multi-part payload is the decoded content
\* of its first text/plain part, that of a single-part payload is its decoded
\* body, and a payload with no plain-text content gives the empty string and
\* no error.
CexC15_FirstPlainPartOrEmpty ==
    Built =>
        /\ "parts" \in DOMAIN InPayload /\ PlainParts(InPayload) # {} =>
              probe.extracted = Content(InPayload.parts[Least(PlainParts(InPayload))].body)
        /\ "parts" \notin DOMAIN InPayload /\ "body" \in DOMAIN InPayload =>
              probe.extracted = Content(InPayload.body)
        /\ (IF "parts" \in DOMAIN InPayload
            THEN PlainParts(InPayload) = {}
            ELSE InPayload.mimeType # "text/plain") =>
              probe.extracted = Empty

\* C15 (amended): the body of a multi-part payload is the decoded data of its
\* first top-level text/plain part that carries data; that of a single-part
\* payload is its decoded body data, whatever its MIME type; a multi-part
\* payload with no such part and a single-part payload without body data give
\* the empty string and no error.
ThmC15_FirstPlainPartWithData ==
    Built =>
        IF "parts" \in DOMAIN InPayload
        THEN IF PlainPartsWithData(InPayload) # {}
             THEN probe.extracted =
                    decode(InPayload.parts[Least(PlainPartsWithData(InPayload))].body.data)
             ELSE probe.extracted = Empty
        ELSE IF "body" \in DOMAIN InPayload /\ "data" \in DOMAIN InPayload.body
             THEN probe.extracted = decode(InPayload.body.data)
             ELSE probe.extracted = Empty

\* Two plain parts with different data: the first one is taken.
WitC15_TwoPlainParts ==
    /\ Recorded /\ "parts" \in DOMAIN InPayload
    /\ PlainPartsWithData(InPayload) = {1, 2}
    /\ probe.extracted.val = << 72, 105 >>
    /\ decode(InPayload.parts[2].body.data).val = << 111, 107, 33 >>

HeaderIdx(name) ==
    {i \in 1..Len(InPayload.headers) : InPayload.headers[i].name = name}
HeaderValue(name, placeholder) ==
    IF HeaderIdx(name) = {} THEN placeholder ELSE InPayload.headers[Least(HeaderIdx(name))].value

\* C16: each of subject, sender and date of a record is, independently, the
\* value of the message's Subject / From / Date header when it has one, and
\* "No Subject" / "Unknown" / "Unknown" when it has none.
ThmC16_HeaderDefaulting ==
    Recorded =>
        /\ probe.record[1].subject = HeaderValue("Subject", "No Subject")
        /\ probe.record[1].sender = HeaderValue("From", "Unknown")
        /\ probe.record[1].date = HeaderValue("Date", "Unknown")

\* Only From is present, behind another header.
WitC16_OnlyFromPresent ==
    /\ Recorded /\ Len(InPayload.headers) = 2
    /\ InPayload.headers[1].name = "To" /\ InPayload.headers[2].name = "From"
    /\ probe.record[1].subject = "No Subject" /\ probe.record[1].date = "Unknown"
    /\ probe.record[1].sender = InPayload.headers[2].value

IsPrefix(s, t, limit) ==
    /\ Len(s) = (IF Len(t) <= limit THEN Len(t) ELSE limit)
    /\ \A i \in 1..Len(s) : s[i] = t[i]

\* C17: a record's body is the first 1000 characters of the extracted body
\* (all of it when shorter), and the preview in the prompt is the first 500
\* characters of the record's body.
ThmC17_BodyAndPreviewTruncated ==
    /\ Recorded =>
          /\ Len(probe.record[1].body) <= 1000
          /\ IsPrefix(probe.record[1].body, probe.extracted.val, 1000)
    /\ probe.stage = "prompt" =>
          /\ Len(probe.prompt) = 1
          /\ IsPrefix(probe.prompt[1].preview, probe.record[1].body, 500)

\* A text longer than both limits.
WitC17_LongBodyCut ==
    /\ probe.stage = "prompt"
    /\ Len(probe.extracted.val) = 1500
    /\ Len(probe.record[1].body) = 1000 /\ Len(probe.prompt[1].preview) = 500

\* ------------------------------------------------- claims about several runs
\* C18: in every interleaving of two overlapping runs a message is marked
\* read only by a run whose own send reported success, and only if that run
\* fetched it.
ThmC18_OverlapStillAckAfterOwnSend ==
    \A p \in Running :
        Made(run[p], "ack") \/ run[p].cleared # {} =>
            /\ run[p].success = "True" /\ run[p].message_id # NONE
            /\ run[p].cleared \subseteq BatchIds(run[p])

\* C18, the interleaving it names: both runs fetched the same unread message
\* and both delivered a digest that contains it.
WitC18_BothDeliveredSameMessage ==
    /\ \A p \in {1, 2} : run[p].success = "True" /\ run[p].message_id # NONE
    /\ BatchIds(run[1]) \cap BatchIds(run[2]) # {}
    /\ Made(run[1], "ack") /\ Made(run[2], "ack")

\* C19: a run fetches and acknowledges at most max_results messages and
\* leaves the others unread; no acknowledged message is acknowledged again;
\* and when every run succeeds and no mail arrives, the mailbox ends up, and
\* stays, without unread messages.
ThmC19_BacklogDrains ==
    /\ [](\A p \in Running :
            /\ Len(run[p].messages) <= MaxResults
            /\ Made(run[p], "ack") =>
                  /\ run[p].cleared = BatchIds(run[p])
                  /\ Cardinality(BatchIds(run[p])) <= MaxResults)
    /\ [][\A p \in AllProcs :
            /\ unread' \subseteq unread
            /\ run'[p] # run[p] => (unread \ unread') \subseteq BatchIds(run'[p])
            /\ Made(run'[p], "ack") /\ ~Made(run[p], "ack") =>
                  BatchIds(run'[p]) \cap cleared = {}]_vars
    /\ <>[](unread = {} /\ cleared = exists)

\* More unread messages than one listing returns have all been acknowledged.
WitC19_BacklogDrained ==
    /\ Cardinality(exists) > MaxResults
    /\ unread = {} /\ cleared = exists
    /\ \E p \in Running : Made(run[p], "ack") /\ Cardinality(run[p].cleared) < Cardinality(exists)

====
